---------------------------- MODULE Spec2Model ----------------------------
(***************************************************************************)
(* S3Plugin (src/src/s3_plugin.ts, src/src/helpers.ts): a webpack plugin   *)
(* whose "done" hook lists the build's files, rewrites HTML/CSS through    *)
(* cdnizer, filters them, uploads them to S3 and invalidates CloudFront.   *)
(*                                                                         *)
(* Strings are sequences of one-character strings, so that concatenation,  *)
(* Key[0] and the regular expressions of the source are computed.  One     *)
(* action is one callback of the source: the hook body, a promise          *)
(* reaction, or the completion callback of an I/O request.                 *)
(***************************************************************************)
EXTENDS Naturals, Sequences, FiniteSets

VARIABLES
    options,              \* this.options: directory, include, exclude, basePath, priority, htmlFiles
    basePathTransform,    \* this.basePathTransform
    rawBasePath,          \* the basePath option the constructor was given
    uploadOptions,        \* this.uploadOptions (s3UploadOptions)
    cloudfrontInvalidateOptions, \* this.cloudfrontInvalidateOptions
    noCdnizer,            \* this.noCdnizer
    cdnizerOptionsFiles,  \* this.cdnizerOptions.files
    isConnected,          \* this.isConnected
    clients,              \* number of S3 clients constructed by connect()
    hook,                 \* closure of apply(): registered, isDirectoryUpload, hasRequiredUploadOpts
    pass,                 \* number of times the done hook has been called
    hookSettled,          \* the promise the done callback returned for this pass is settled
    pc,                   \* position of the pass's promise chain
    listed,               \* files the listing resolved with (argument of handleFiles)
    files,                \* value changeUrls resolves with
    allowed,              \* value filterAllowedFiles returns (argument of uploadFiles)
    transformed,          \* value basePathTransform returned, not yet normalised
    pendingError,         \* rejection reason travelling to .catch(handleErrors)
    cdn,                  \* cdnizeHtml calls of the pass: name and I/O state
    uploads,              \* client.upload calls of the pass, in call order
    invalidations,        \* cloudfront.createInvalidation calls of the pass
    errors,               \* compilation.errors of the pass's compilation
    unhandled,            \* rejections of the pass that no handler observes
    call                  \* a direct call of testRule or prioritizeFiles: arguments and outcome

vars == <<options, basePathTransform, rawBasePath, uploadOptions, cloudfrontInvalidateOptions,
          noCdnizer, cdnizerOptionsFiles, isConnected, clients, hook, pass,
          hookSettled, pc, listed, files, allowed, transformed, pendingError,
          cdn, uploads, invalidations, errors, unhandled, call>>

\* The plugin instance and its pass, without the direct call.
pluginVars == <<options, basePathTransform, rawBasePath, uploadOptions,
                cloudfrontInvalidateOptions, noCdnizer, cdnizerOptionsFiles, isConnected,
                clients, hook, pass, hookSettled, pc, listed, files, allowed, transformed,
                pendingError, cdn, uploads, invalidations, errors, unhandled>>

---------------------------------------------------------------------------
(* Bounds                                                                  *)

MaxPasses == 2

\* Longest basePath option of the base-path configurations.
MaxBasePathLen == 2

\* Longest rule list and longest priority list of the direct calls.
MaxRules == 2

\* Longest file list handed to prioritizeFiles directly.
MaxFiles == 3

---------------------------------------------------------------------------
(* Strings and regular expressions                                         *)

S3_PATH_SEP == "/"

Range(s) == {s[i] : i \in DOMAIN s}

\* One token of a regular expression against one character: "." is the
\* wildcard, "\\." the escaped dot, any other token a literal.
TokenMatches(tok, ch) ==
    IF tok = "." THEN TRUE
    ELSE IF tok = "\\." THEN ch = "."
    ELSE tok = ch

\* RegExp.prototype.test for an unanchored pattern of such tokens.
RegExpTest(re, s) ==
    \E i \in 0..Len(s) :
        /\ i + Len(re) <= Len(s)
        /\ \A j \in 1..Len(re) : TokenMatches(re[j], s[i + j])

\* new RegExp(str): a backslash and the character after it are one token.
RECURSIVE NewRegExp(_)
NewRegExp(str) ==
    IF str = <<>> THEN <<>>
    ELSE IF Head(str) = "\\" /\ Len(str) >= 2
    THEN <<"\\" \o str[2]>> \o NewRegExp(SubSeq(str, 3, Len(str)))
    ELSE <<Head(str)>> \o NewRegExp(Tail(str))

\* First position (0-based) where /\/?(\?|#|$)/ matches fPath.
SepMatchesAt(fPath, i) ==
    LET n == Len(fPath)
        IsGroup(k) == k = n \/ (k < n /\ fPath[k + 1] \in {"?", "#"})
    IN  \/ (i < n /\ fPath[i + 1] = S3_PATH_SEP /\ IsGroup(i + 1))
        \/ IsGroup(i)

addTrailingS3Sep(fPath) ==
    IF fPath = <<>> THEN fPath
    ELSE LET n == Len(fPath)
             i == CHOOSE k \in 0..n :
                      SepMatchesAt(fPath, k) /\ \A m \in 0..(k - 1) : ~SepMatchesAt(fPath, m)
             slash == i < n /\ fPath[i + 1] = S3_PATH_SEP
             rest == IF slash THEN i + 1 ELSE i
         IN  SubSeq(fPath, 1, i) \o <<S3_PATH_SEP>> \o SubSeq(fPath, rest + 1, n)

---------------------------------------------------------------------------
(* Rules (helpers.ts)                                                      *)

UPLOAD_IGNORES == << <<".", "D", "S", "_", "S", "t", "o", "r", "e">> >>

REQUIRED_S3_UP_OPTS == <<"Bucket">>

NoRule == [kind |-> "undefined", src |-> <<>>, ret |-> <<>>, rules |-> <<>>]

RegExpRule(src) == [kind |-> "regexp", src |-> src, ret |-> <<>>, rules |-> <<>>]

StringRule(src) == [kind |-> "string", src |-> src, ret |-> <<>>, rules |-> <<>>]

FunctionRule(ret) == [kind |-> "function", src |-> <<>>, ret |-> ret, rules |-> <<>>]

ArrayRule(rules) == [kind |-> "array", src |-> <<>>, ret |-> <<>>, rules |-> rules]

\* A value that is none of the Rule shapes.
NumberRule == [kind |-> "number", src |-> <<>>, ret |-> <<>>, rules |-> <<>>]

\* JavaScript's ToBoolean on the values a rule function returns here.
ToBoolean(v) == v \notin {"false", "0", "''", "undefined", "null"}

\* `include ? ... : true`: undefined and the empty string are falsy.
Truthy(rule) == rule.kind # "undefined" /\ ~(rule.kind = "string" /\ rule.src = <<>>)

\* Whether testRule(rule, subject) throws 'Invalid include / exclude rule';
\* Array.prototype.every stops at the first member that returns false.
RECURSIVE testRuleThrows(_, _)
RECURSIVE testRule(_, _)
testRuleThrows(rule, subject) ==
    IF rule.kind \in {"regexp", "function", "string"} THEN FALSE
    ELSE IF rule.kind = "array"
    THEN \E i \in DOMAIN rule.rules :
            /\ testRuleThrows(rule.rules[i], subject)
            /\ \A j \in 1..(i - 1) :
                   ~testRuleThrows(rule.rules[j], subject) /\ testRule(rule.rules[j], subject)
    ELSE TRUE

\* testRule with rule.some in place of rule.every.
testRuleSome(rule, subject) ==
    IF rule.kind = "regexp" THEN RegExpTest(rule.src, subject)
    ELSE IF rule.kind = "function" THEN ToBoolean(rule.ret[subject])
    ELSE IF rule.kind = "array"
    THEN \E i \in DOMAIN rule.rules : testRule(rule.rules[i], subject)
    ELSE IF rule.kind = "string" THEN RegExpTest(NewRegExp(rule.src), subject)
    ELSE FALSE

testRule(rule, subject) ==
    IF rule.kind = "regexp" THEN RegExpTest(rule.src, subject)
    ELSE IF rule.kind = "function" THEN ToBoolean(rule.ret[subject])
    ELSE IF rule.kind = "array"
    THEN \A i \in DOMAIN rule.rules : testRule(rule.rules[i], subject)
    ELSE IF rule.kind = "string" THEN RegExpTest(NewRegExp(rule.src), subject)
    ELSE FALSE

---------------------------------------------------------------------------
(* Pure methods of S3Plugin                                                *)

isIgnoredFile(file) ==
    \E i \in DOMAIN UPLOAD_IGNORES : RegExpTest(UPLOAD_IGNORES[i], file)

isIncludeAndNotExcludeOr(opts, file) ==
    LET isInclude == IF Truthy(opts.include) THEN testRule(opts.include, file) ELSE TRUE
        isExclude == IF Truthy(opts.exclude) THEN testRule(opts.exclude, file) ELSE FALSE
    IN  isInclude \/ ~isExclude

isIncludeAndNotExclude(opts, file) ==
    LET isInclude == IF Truthy(opts.include) THEN testRule(opts.include, file) ELSE TRUE
        isExclude == IF Truthy(opts.exclude) THEN testRule(opts.exclude, file) ELSE FALSE
    IN  isInclude /\ ~isExclude

\* files.reduce(...): the files that pass, in order.
RECURSIVE filterAllowedFiles(_, _)
filterAllowedFiles(opts, fs) ==
    IF fs = <<>> THEN <<>>
    ELSE (IF isIncludeAndNotExclude(opts, Head(fs)) /\ ~isIgnoredFile(Head(fs))
          THEN <<Head(fs)>> ELSE <<>>) \o filterAllowedFiles(opts, Tail(fs))

\* /\.(html|css)/.test(file.name)
HtmlOrCss == { <<"\\.", "h", "t", "m", "l">>, <<"\\.", "c", "s", "s">> }

\* A test that forgets the css alternative.
IsHtmlFileOnly(name) == RegExpTest(<<"\\.", "h", "t", "m", "l">>, name)

IsCdnizeFile(name) == \E re \in HtmlOrCss : RegExpTest(re, name)

IsOtherFile(name) == ~IsCdnizeFile(name)

\* _.uniq: by the name property (lodash 3 reads the 'name' argument as an
\* iteratee) or by object identity (lodash 4 ignores the argument; the file
\* objects of one list are all distinct objects).
RECURSIVE UniqByName(_, _)
UniqByName(fs, seen) ==
    IF fs = <<>> THEN <<>>
    ELSE (IF Head(fs) \in seen THEN <<>> ELSE <<Head(fs)>>)
         \o UniqByName(Tail(fs), seen \cup {Head(fs)})

Uniq(fs, byName) == IF byName THEN UniqByName(fs, {}) ELSE fs

\* _.filter in place of _.remove: the matched files stay in remainingFiles.
RECURSIVE PrioritizedFilesKept(_, _, _)
PrioritizedFilesKept(priority, remaining, i) ==
    IF i > Len(priority) THEN [remaining |-> remaining, tiers |-> <<>>]
    ELSE LET Hit(f) == RegExpTest(priority[i], f)
             rest == PrioritizedFilesKept(priority, remaining, i + 1)
         IN  [remaining |-> rest.remaining,
              tiers |-> <<SelectSeq(remaining, Hit)>> \o rest.tiers]

\* _.remove(remainingFiles, file => reg.test(file.name)) for each pattern in
\* turn; the result is [remainingFiles, ...prioritizedFiles].
RECURSIVE PrioritizedFiles(_, _, _)
PrioritizedFiles(priority, remaining, i) ==
    IF i > Len(priority) THEN [remaining |-> remaining, tiers |-> <<>>]
    ELSE LET Hit(f) == RegExpTest(priority[i], f)
             Miss(f) == ~RegExpTest(priority[i], f)
             rest == PrioritizedFiles(priority, SelectSeq(remaining, Miss), i + 1)
         IN  [remaining |-> rest.remaining,
              tiers |-> <<SelectSeq(remaining, Hit)>> \o rest.tiers]

prioritizeFiles(opts, fs) ==
    LET r == PrioritizedFiles(opts.priority.list, fs, 1)
    IN  <<r.remaining>> \o r.tiers

\* Key of uploadFile: basePath + fileName, one leading '/' removed.
Key(basePath, fileName) ==
    LET k == basePath \o fileName
    IN  IF k # <<>> /\ k[1] = "/" THEN Tail(k) ELSE k

\* What basePathTransform returns: a string, or a promise of one.
CallTransform(t, item) ==
    [promise |-> t.async,
     value |-> IF t.fn = "identity" THEN item ELSE item \o t.suffix]

\* Promise.resolve(v): v itself when it is a promise, else a promise of v.
PromiseResolveValue(v) == v.value

---------------------------------------------------------------------------
(* Upload parameters (uploadFile)                                          *)

DEFAULT_UPLOAD_OPTIONS == [ACL |-> "public-read"]

\* The entries of s3UploadOptions the model carries.
ParamNames == {"Bucket", "ACL", "ContentType"}

\* An entry of the template: absent, a constant, or a function of
\* (fileName, file) given by its result for each file name.
Absent == [kind |-> "undefined", value |-> "undefined", ret |-> <<>>]

Const(v) == [kind |-> "const", value |-> v, ret |-> <<>>]

Fn(ret) == [kind |-> "fn", value |-> "function", ret |-> ret]

\* this.uploadOptions[type] as a condition.
OptionTruthy(o) == o.kind = "fn" \/ (o.kind = "const" /\ o.value \notin {"", "undefined"})

\* Position of the last occurrence of ch in s, 0 when there is none.
LastIndexOf(s, ch) ==
    IF \E i \in DOMAIN s : s[i] = ch
    THEN CHOOSE i \in DOMAIN s : s[i] = ch /\ \A j \in (i + 1)..Len(s) : s[j] # ch
    ELSE 0

\* mime.getType(fileName) of mime/lite for the types of the inputs; "null"
\* when the name has no known extension.
MimeGetType(path) ==
    LET last == SubSeq(path, LastIndexOf(path, "/") + 1, Len(path))
        ext == SubSeq(last, LastIndexOf(last, ".") + 1, Len(last))
        hasPath == Len(last) < Len(path)
        hasDot == Len(ext) < Len(last) - 1
    IN  IF ~(hasDot \/ ~hasPath) THEN "null"
        ELSE IF ext = <<"j", "s">> THEN "application/javascript"
        ELSE IF ext = <<"c", "s", "s">> THEN "text/css"
        ELSE IF ext = <<"h", "t", "m", "l">> THEN "text/html"
        ELSE "null"

\* _.mapValues(this.uploadOptions, ...) that passes every entry on without
\* calling the functions.
S3ParamsNotCalled(template, fileName) ==
    [k \in ParamNames |-> template[k].value]

\* _.mapValues(this.uploadOptions, optionConfig => _.isFunction(optionConfig)
\* ? optionConfig(fileName, file) : optionConfig); an absent entry reads as
\* undefined.
S3Params(template, fileName) ==
    [k \in ParamNames |->
        IF template[k].kind = "fn" THEN template[k].ret[fileName] ELSE template[k].value]

\* The request of uploadFile without Key and Body: the inferred ContentType
\* when s3Params has none, then _.merge({Key, Body}, DEFAULT_UPLOAD_OPTIONS,
\* s3Params), which does not let an undefined source value replace a
\* destination value.
RequestParams(s3Params, fileName) ==
    LET contentType == MimeGetType(fileName)
        withType == IF s3Params.ContentType = "undefined" /\ contentType # "null"
                    THEN [s3Params EXCEPT !.ContentType = contentType]
                    ELSE s3Params
    IN  [k \in ParamNames |->
            IF withType[k] = "undefined" /\ k \in DOMAIN DEFAULT_UPLOAD_OPTIONS
            THEN DEFAULT_UPLOAD_OPTIONS[k]
            ELSE withType[k]]

---------------------------------------------------------------------------
(* Inputs                                                                  *)

AppJs == <<"a", ".", "j", "s">>
StyleCss == <<"s", ".", "c", "s", "s">>
IndexHtml == <<"i", ".", "h", "t", "m", "l">>
DSStore == <<".", "D", "S", "_", "S", "t", "o", "r", "e">>

\* What a directory walk or the compilation's assets can hold.
Listings == { <<AppJs, StyleCss>>, <<IndexHtml, DSStore>>, <<AppJs>> }

IncludeRules == { NoRule, RegExpRule(<<"s">>) }
ExcludeRules == { NoRule, RegExpRule(<<"c", "s", "s">>) }

NoPriority == [set |-> FALSE, list |-> <<>>]
Priorities == { NoPriority, [set |-> TRUE, list |-> << <<"c", "s", "s">> >>] }

BasePaths == { <<>>, <<"t">> }

DEFAULT_TRANSFORM == [fn |-> "identity", suffix |-> <<>>, async |-> TRUE]
Transforms == { DEFAULT_TRANSFORM,
                [fn |-> "append", suffix |-> <<"X">>, async |-> FALSE],
                [fn |-> "append", suffix |-> <<"X">>, async |-> TRUE] }

\* cloudfrontInvalidateOptions.DistributionId: absent, a string, or an array.
DistributionIds == { [kind |-> "undefined", ids |-> <<>>],
                     [kind |-> "string", ids |-> <<"D1">>],
                     [kind |-> "array", ids |-> <<"D1", "D2">>] }

\* cdnizerOptions empty or not, with the htmlFiles option.
Cdnizers == { [noCdnizer |-> TRUE, htmlFiles |-> <<>>],
              [noCdnizer |-> FALSE, htmlFiles |-> <<>>],
              [noCdnizer |-> FALSE, htmlFiles |-> <<IndexHtml>>] }

\* s3UploadOptions without and with Bucket.
NoBucket == [Bucket |-> Absent, ACL |-> Absent, ContentType |-> Absent]
WithBucket == [Bucket |-> Const("bucket"), ACL |-> Absent, ContentType |-> Absent]

FileNames == {AppJs, StyleCss, IndexHtml, DSStore}

\* s3UploadOptions with constants and functions, some of which return
\* undefined for some files.
ParamTemplates ==
    [Bucket : { Const("bucket"), Fn([n \in FileNames |-> "bucket"]) },
     ACL : { Absent, Const("private"),
             Fn([n \in FileNames |-> IF n = AppJs THEN "private" ELSE "undefined"]) },
     ContentType : { Absent, Const("text/plain"),
                     Fn([n \in FileNames |-> IF n = AppJs THEN "undefined" ELSE "text/x"]) }]

\* The strings over alphabet of length n, and up to n.
RECURSIVE StringsOfLen(_, _)
StringsOfLen(alphabet, n) ==
    IF n = 0 THEN { <<>> }
    ELSE { <<ch>> \o rest : ch \in alphabet, rest \in StringsOfLen(alphabet, n - 1) }

StringsUpTo(alphabet, n) == UNION { StringsOfLen(alphabet, k) : k \in 0..n }

\* The configurations the constructor is given: the plain ones in every
\* combination, then the base paths and transforms with separators and
\* query marks, then the upload option templates.
CoreConfigs ==
    [directory : BOOLEAN, include : IncludeRules, exclude : ExcludeRules,
     basePath : BasePaths, priority : Priorities, cdnizer : Cdnizers,
     basePathTransform : Transforms, s3UploadOptions : {NoBucket, WithBucket},
     DistributionId : DistributionIds]

KeyConfigs ==
    [directory : {FALSE}, include : {NoRule}, exclude : {NoRule},
     basePath : StringsUpTo({"t", "/", "?"}, MaxBasePathLen),
     priority : {NoPriority}, cdnizer : {[noCdnizer |-> TRUE, htmlFiles |-> <<>>]},
     basePathTransform : { DEFAULT_TRANSFORM,
                           [fn |-> "append", suffix |-> <<"?", "v">>, async |-> FALSE],
                           [fn |-> "append", suffix |-> <<"/", "/">>, async |-> TRUE] },
     s3UploadOptions : {WithBucket},
     DistributionId : {[kind |-> "undefined", ids |-> <<>>]}]

ParamConfigs ==
    [directory : {FALSE}, include : {NoRule}, exclude : {NoRule},
     basePath : {<<>>}, priority : {NoPriority},
     cdnizer : {[noCdnizer |-> TRUE, htmlFiles |-> <<>>]},
     basePathTransform : {DEFAULT_TRANSFORM},
     s3UploadOptions : ParamTemplates,
     DistributionId : {[kind |-> "undefined", ids |-> <<>>]}]

\* include and exclude options that are, or hold, a value that is no Rule.
RuleConfigs ==
    [directory : {FALSE},
     include : { NumberRule, ArrayRule(<<RegExpRule(<<"c", "s", "s">>), NumberRule>>) },
     exclude : { NoRule, NumberRule },
     basePath : {<<>>}, priority : {NoPriority},
     cdnizer : {[noCdnizer |-> TRUE, htmlFiles |-> <<>>]},
     basePathTransform : {DEFAULT_TRANSFORM},
     s3UploadOptions : {WithBucket},
     DistributionId : {[kind |-> "undefined", ids |-> <<>>]}]

Configs == CoreConfigs \cup KeyConfigs \cup ParamConfigs \cup RuleConfigs

\* The sequences over S of length n, and up to n.
RECURSIVE SeqsOfLen(_, _)
SeqsOfLen(S, n) ==
    IF n = 0 THEN { <<>> }
    ELSE { <<x>> \o rest : x \in S, rest \in SeqsOfLen(S, n - 1) }

SeqsUpTo(S, n) == UNION { SeqsOfLen(S, k) : k \in 0..n }

\* Arguments of the direct calls of testRule: every Rule shape, lists of
\* them, and a value that is no Rule.
Subjects == {AppJs, StyleCss}

RuleAtoms ==
    { RegExpRule(<<"s">>), RegExpRule(<<"\\.", "c", "s", "s">>),
      StringRule(<<"c", ".", "s">>), StringRule(<<"c", "\\", ".", "s">>),
      StringRule(<<"\\", ".", "j">>), NumberRule }
    \cup { FunctionRule(ret) : ret \in [Subjects -> {"true", "false", "0", "'x'"}] }

Rules == RuleAtoms \cup { ArrayRule(rs) : rs \in SeqsUpTo(RuleAtoms, MaxRules) }

\* Arguments of the direct calls of prioritizeFiles: the priority option,
\* with patterns that overlap, and lists of distinct files.
PriorityLists == SeqsUpTo({ <<"s">>, <<"c", "s", "s">>, <<"\\.", "h", "t", "m", "l">> }, MaxRules)

FileLists ==
    { fs \in SeqsUpTo(FileNames, MaxFiles) :
        \A i, j \in DOMAIN fs : i # j => fs[i] # fs[j] }

\* The plugin the direct calls are made on.
CallConfig(priority) ==
    [directory |-> FALSE, include |-> NoRule, exclude |-> NoRule, basePath |-> <<>>,
     priority |-> priority, cdnizer |-> [noCdnizer |-> TRUE, htmlFiles |-> <<>>],
     basePathTransform |-> DEFAULT_TRANSFORM, s3UploadOptions |-> WithBucket,
     DistributionId |-> [kind |-> "undefined", ids |-> <<>>]]

NoCall ==
    [op |-> "none", rule |-> NoRule, subject |-> <<>>, files |-> <<>>,
     state |-> "none", result |-> FALSE, tiers |-> <<>>]

---------------------------------------------------------------------------
(* Errors                                                                  *)

ConfigError == [prefix |-> "S3Plugin-RequiredS3UploadOpts: ", error |-> "Bucket"]

PluginError(e) == [prefix |-> "S3Plugin: ", error |-> e]

---------------------------------------------------------------------------
(* The state after `new S3Plugin(options)`                                 *)

Constructed(c) ==
    /\ options = [directory |-> c.directory,
                  include |-> c.include,
                  exclude |-> c.exclude,
                  basePath |-> IF c.basePath # <<>>
                               THEN addTrailingS3Sep(c.basePath) ELSE <<>>,
                  priority |-> c.priority,
                  htmlFiles |-> c.cdnizer.htmlFiles]
    /\ rawBasePath = c.basePath
    /\ noCdnizer = c.cdnizer.noCdnizer
    /\ basePathTransform = c.basePathTransform
    /\ uploadOptions = c.s3UploadOptions
    /\ cloudfrontInvalidateOptions = [DistributionId |-> c.DistributionId]
    /\ cdnizerOptionsFiles = <<>>
    /\ isConnected = FALSE
    /\ clients = 0
    /\ hook = [registered |-> FALSE, isDirectoryUpload |-> FALSE, hasRequiredUploadOpts |-> FALSE]
    /\ pass = 0
    /\ hookSettled = FALSE
    /\ pc = "idle"
    /\ listed = <<>>
    /\ files = <<>>
    /\ allowed = <<>>
    /\ transformed = [promise |-> FALSE, value |-> <<>>]
    /\ pendingError = "none"
    /\ cdn = <<>>
    /\ uploads = <<>>
    /\ invalidations = <<>>
    /\ errors = <<>>
    /\ unhandled = {}

Init ==
    /\ \E c \in Configs : Constructed(c)
    /\ call = NoCall

\* A plugin on which testRule or prioritizeFiles is called directly.
FnInit ==
    \/ /\ Constructed(CallConfig(NoPriority))
       /\ \E r \in Rules, subject \in Subjects :
             call = [NoCall EXCEPT !.op = "testRule", !.rule = r, !.subject = subject,
                                   !.state = "called"]
    \/ /\ \E p \in PriorityLists :
             Constructed(CallConfig(IF p = <<>> THEN NoPriority
                                    ELSE [set |-> TRUE, list |-> p]))
       /\ \E fs \in FileLists :
             call = [NoCall EXCEPT !.op = "prioritizeFiles", !.files = fs,
                                   !.state = "called"]

---------------------------------------------------------------------------
(* connect and apply                                                       *)

\* connect() without the isConnected test: a new client on every call.
ConnectAlways ==
    /\ clients' = clients + 1
    /\ isConnected' = TRUE
    /\ UNCHANGED <<options, call, basePathTransform, rawBasePath, uploadOptions, cloudfrontInvalidateOptions,
                   noCdnizer, cdnizerOptionsFiles, hook, pass, hookSettled, pc, listed,
                   files, allowed, transformed, pendingError, cdn, uploads, invalidations,
                   errors, unhandled>>

Connect ==
    /\ IF isConnected
       THEN UNCHANGED <<isConnected, clients>>
       ELSE /\ clients' = clients + 1
            /\ isConnected' = TRUE
    /\ UNCHANGED <<options, call, basePathTransform, rawBasePath, uploadOptions, cloudfrontInvalidateOptions,
                   noCdnizer, cdnizerOptionsFiles, hook, pass, hookSettled, pc, listed,
                   files, allowed, transformed, pendingError, cdn, uploads, invalidations,
                   errors, unhandled>>

\* apply(compiler): connect, then register the done hook with the two
\* constants it closes over.
Apply ==
    /\ ~hook.registered
    /\ IF isConnected
       THEN UNCHANGED <<isConnected, clients>>
       ELSE /\ clients' = clients + 1
            /\ isConnected' = TRUE
    /\ hook' = [registered |-> TRUE,
                isDirectoryUpload |-> options.directory,
                hasRequiredUploadOpts |->
                    \A i \in DOMAIN REQUIRED_S3_UP_OPTS :
                        OptionTruthy(uploadOptions[REQUIRED_S3_UP_OPTS[i]])]
    /\ UNCHANGED <<options, call, basePathTransform, rawBasePath, uploadOptions, cloudfrontInvalidateOptions,
                   noCdnizer, cdnizerOptionsFiles, pass, hookSettled, pc, listed,
                   files, allowed, transformed, pendingError, cdn, uploads, invalidations,
                   errors, unhandled>>

---------------------------------------------------------------------------
(* The done hook                                                           *)

Terminal(reqs) == \A i \in DOMAIN reqs : reqs[i].state \in {"done", "failed"}

\* No callback of the previous pass is outstanding: one build is in flight
\* at a time.
Quiescent == pc \in {"idle", "settled"} /\ Terminal(cdn) /\ Terminal(uploads)
             /\ Terminal(invalidations)

\* The hook body of a mutant that does not return after compileError.
DoneNoReturn ==
    /\ hook.registered
    /\ Quiescent
    /\ pass < MaxPasses
    /\ pass' = pass + 1
    /\ hookSettled' = TRUE
    /\ errors' = IF hook.hasRequiredUploadOpts THEN <<>> ELSE <<ConfigError>>
    /\ pc' = "list"
    /\ listed' = <<>>
    /\ files' = <<>>
    /\ allowed' = <<>>
    /\ pendingError' = "none"
    /\ cdn' = <<>>
    /\ uploads' = <<>>
    /\ invalidations' = <<>>
    /\ unhandled' = {}
    /\ UNCHANGED <<options, call, basePathTransform, rawBasePath, uploadOptions, cloudfrontInvalidateOptions,
                   noCdnizer, cdnizerOptionsFiles, isConnected, clients, hook, transformed>>

\* async ({compilation}) => {...}: a new compilation, hence a new error
\* list; the promise chain it starts is neither awaited nor returned, so the
\* callback's own promise is settled when the body ends.
Done ==
    /\ hook.registered
    /\ Quiescent
    /\ pass < MaxPasses
    /\ pass' = pass + 1
    /\ hookSettled' = TRUE
    /\ IF ~hook.hasRequiredUploadOpts
       THEN /\ errors' = <<ConfigError>>
            /\ pc' = "settled"
       ELSE /\ errors' = <<>>
            /\ pc' = "list"
    /\ listed' = <<>>
    /\ files' = <<>>
    /\ allowed' = <<>>
    /\ pendingError' = "none"
    /\ cdn' = <<>>
    /\ uploads' = <<>>
    /\ invalidations' = <<>>
    /\ unhandled' = {}
    /\ UNCHANGED <<options, call, basePathTransform, rawBasePath, uploadOptions, cloudfrontInvalidateOptions,
                   noCdnizer, cdnizerOptionsFiles, isConnected, clients, hook, transformed>>

---------------------------------------------------------------------------
(* Listing, handleFiles and changeUrls                                     *)

Glob(prefix, name) == [prefix |-> prefix, name |-> name]

\* handleFiles(fs) up to the promise changeUrls returns: without cdnizer
\* options it is Promise.resolve(fs); with them the htmlFiles are put in
\* front, the cdnizer patterns are rebuilt and one cdnizeHtml call is
\* started for every HTML or CSS file.
HandleFiles(fs) ==
    /\ listed' = fs
    /\ IF noCdnizer
       THEN /\ files' = fs
            /\ pc' = "filter"
            /\ UNCHANGED <<cdn, cdnizerOptionsFiles>>
       ELSE \E byName \in BOOLEAN :
            LET allHtml == IF options.htmlFiles # <<>> THEN options.htmlFiles \o fs ELSE fs
                u == Uniq(allHtml, byName)
                cdnizeFiles == SelectSeq(u, IsCdnizeFile)
                otherFiles == SelectSeq(u, IsOtherFile)
            IN  /\ cdnizerOptionsFiles' = [i \in DOMAIN allHtml |-> Glob("{/,}*", allHtml[i])]
                /\ cdn' = [i \in DOMAIN cdnizeFiles |->
                              [name |-> cdnizeFiles[i], state |-> "reading"]]
                /\ files' = cdnizeFiles \o otherFiles
                /\ pc' = "rewrite"

\* getAllFilesRecursive(dPath) settles: recursive-readdir's error rejects.
ListDirectory ==
    /\ pc = "list"
    /\ hook.isDirectoryUpload
    /\ \/ /\ \E fs \in Listings : HandleFiles(fs)
          /\ UNCHANGED pendingError
       \/ /\ pc' = "catch"
          /\ pendingError' = "ListingError"
          /\ UNCHANGED <<listed, files, cdn, cdnizerOptionsFiles>>
    /\ UNCHANGED <<options, call, basePathTransform, rawBasePath, uploadOptions, cloudfrontInvalidateOptions,
                   noCdnizer, isConnected, clients, hook, pass, hookSettled, allowed,
                   transformed, uploads, invalidations, errors, unhandled>>

\* getAssetFiles(compilation) resolved with the compilation's assets.
ListAssets ==
    /\ pc = "list"
    /\ ~hook.isDirectoryUpload
    /\ \E fs \in Listings : HandleFiles(fs)
    /\ UNCHANGED <<options, call, basePathTransform, rawBasePath, uploadOptions, cloudfrontInvalidateOptions,
                   noCdnizer, isConnected, clients, hook, pass, hookSettled, allowed,
                   transformed, pendingError, uploads, invalidations, errors, unhandled>>

\* A rejection that reaches the catch handler every time.
RejectRewriteAlways == pc' = "catch" /\ pendingError' = "RewriteError"

\* The Promise.all of changeUrls rejects with the first cdnizeHtml that
\* rejects; later rejections find it settled.
RejectRewrite ==
    IF pc = "rewrite"
    THEN pc' = "catch" /\ pendingError' = "RewriteError"
    ELSE UNCHANGED <<pc, pendingError>>

\* fs.readFile's callback in cdnizeHtml: on success fs.writeFile is started.
ReadFileCallback(i) ==
    /\ i \in DOMAIN cdn
    /\ cdn[i].state = "reading"
    /\ \/ /\ cdn' = [cdn EXCEPT ![i].state = "writing"]
          /\ UNCHANGED <<pc, pendingError>>
       \/ /\ cdn' = [cdn EXCEPT ![i].state = "failed"]
          /\ RejectRewrite
    /\ UNCHANGED <<options, call, basePathTransform, rawBasePath, uploadOptions, cloudfrontInvalidateOptions,
                   noCdnizer, cdnizerOptionsFiles, isConnected, clients, hook, pass,
                   hookSettled, listed, files, allowed, transformed, uploads,
                   invalidations, errors, unhandled>>

\* fs.writeFile's callback in cdnizeHtml: the file has been rewritten.
WriteFileCallback(i) ==
    /\ i \in DOMAIN cdn
    /\ cdn[i].state = "writing"
    /\ \/ /\ cdn' = [cdn EXCEPT ![i].state = "done"]
          /\ UNCHANGED <<pc, pendingError>>
       \/ /\ cdn' = [cdn EXCEPT ![i].state = "failed"]
          /\ RejectRewrite
    /\ UNCHANGED <<options, call, basePathTransform, rawBasePath, uploadOptions, cloudfrontInvalidateOptions,
                   noCdnizer, cdnizerOptionsFiles, isConnected, clients, hook, pass,
                   hookSettled, listed, files, allowed, transformed, uploads,
                   invalidations, errors, unhandled>>

\* A changeUrls that resolves with the files without waiting for the
\* cdnizeHtml calls.
ChangeUrlsResolvedEarly ==
    /\ pc = "rewrite"
    /\ pc' = "filter"
    /\ UNCHANGED <<options, call, basePathTransform, rawBasePath, uploadOptions, cloudfrontInvalidateOptions,
                   noCdnizer, cdnizerOptionsFiles, isConnected, clients, hook, pass,
                   hookSettled, listed, files, allowed, transformed, pendingError, cdn,
                   uploads, invalidations, errors, unhandled>>

\* The Promise.all of changeUrls resolves once every cdnizeHtml resolved.
ChangeUrlsResolved ==
    /\ pc = "rewrite"
    /\ \A i \in DOMAIN cdn : cdn[i].state = "done"
    /\ pc' = "filter"
    /\ UNCHANGED <<options, call, basePathTransform, rawBasePath, uploadOptions, cloudfrontInvalidateOptions,
                   noCdnizer, cdnizerOptionsFiles, isConnected, clients, hook, pass,
                   hookSettled, listed, files, allowed, transformed, pendingError, cdn,
                   uploads, invalidations, errors, unhandled>>

---------------------------------------------------------------------------
(* filterAllowedFiles and uploadFiles                                      *)

\* .then((files) => this.filterAllowedFiles(files)); testRule's throw
\* rejects the chain.
FilterAllowedFiles ==
    /\ pc = "filter"
    /\ IF \E i \in DOMAIN files :
              \/ (Truthy(options.include) /\ testRuleThrows(options.include, files[i]))
              \/ (Truthy(options.exclude) /\ testRuleThrows(options.exclude, files[i]))
       THEN /\ pc' = "catch"
            /\ pendingError' = "InvalidRule"
            /\ UNCHANGED allowed
       ELSE /\ allowed' = filterAllowedFiles(options, files)
            /\ pc' = "uploadFiles"
            /\ UNCHANGED pendingError
    /\ UNCHANGED <<options, call, basePathTransform, rawBasePath, uploadOptions, cloudfrontInvalidateOptions,
                   noCdnizer, cdnizerOptionsFiles, isConnected, clients, hook, pass,
                   hookSettled, listed, files, transformed, cdn, uploads, invalidations,
                   errors, unhandled>>

\* uploadFiles(files) calls transformBasePath, which calls
\* this.basePathTransform(this.options.basePath).
UploadFiles ==
    /\ pc = "uploadFiles"
    /\ transformed' = CallTransform(basePathTransform, options.basePath)
    /\ pc' = "transform"
    /\ UNCHANGED <<options, call, basePathTransform, rawBasePath, uploadOptions, cloudfrontInvalidateOptions,
                   noCdnizer, cdnizerOptionsFiles, isConnected, clients, hook, pass,
                   hookSettled, listed, files, allowed, pendingError, cdn, uploads,
                   invalidations, errors, unhandled>>

\* Promise.resolve(...).then(addTrailingS3Sep).then(nPath => basePath = nPath)
TransformBasePath ==
    /\ pc = "transform"
    /\ options' = [options EXCEPT
                      !.basePath = addTrailingS3Sep(PromiseResolveValue(transformed))]
    /\ pc' = "upload"
    /\ UNCHANGED <<call, basePathTransform, rawBasePath, uploadOptions, cloudfrontInvalidateOptions,
                   noCdnizer, cdnizerOptionsFiles, isConnected, clients, hook, pass,
                   hookSettled, listed, files, allowed, transformed, pendingError, cdn,
                   uploads, invalidations, errors, unhandled>>

\* An upload loop that stops one file short.
UploadRequestsButLast(fs) ==
    [i \in 1..(Len(fs) - 1) |->
        [name |-> fs[i], Key |-> Key(options.basePath, fs[i]),
         params |-> RequestParams(S3Params(uploadOptions, fs[i]), fs[i]),
         client |-> clients, state |-> "pending"]]

\* uploadFile(fileName, file) for each file of fs, in order.
UploadRequests(fs) ==
    [i \in DOMAIN fs |->
        [name |-> fs[i], Key |-> Key(options.basePath, fs[i]),
         params |-> RequestParams(S3Params(uploadOptions, fs[i]), fs[i]),
         client |-> clients, state |-> "pending"]]

\* uploadInPriorityOrder(files): Array.prototype.map calls Promise.resolve
\* with an undefined receiver for each of the tier functions, of which there
\* is always one (the remaining tier), and Promise.resolve then throws a
\* TypeError; no tier function is called.
UploadInPriorityOrderThrows(fs) == Len(prioritizeFiles(options, fs)) > 0

\* The callback of transformBasePath().then(...) in uploadFiles.  Neither
\* branch returns its promise, so uploadFiles resolves when the callback
\* returns.
StartUploads ==
    /\ pc = "upload"
    /\ IF options.priority.set
       THEN IF UploadInPriorityOrderThrows(allowed)
            THEN /\ pc' = "catch"
                 /\ pendingError' = "TypeError"
                 /\ UNCHANGED <<uploads, cdnizerOptionsFiles>>
            ELSE /\ pc' = "invalidate"
                 /\ UNCHANGED <<pendingError, uploads, cdnizerOptionsFiles>>
       ELSE /\ uploads' = UploadRequests(allowed)
            /\ cdnizerOptionsFiles' =
                   IF noCdnizer THEN cdnizerOptionsFiles
                   ELSE cdnizerOptionsFiles \o [i \in DOMAIN allowed |-> Glob("*", allowed[i])]
            /\ pc' = "invalidate"
            /\ UNCHANGED pendingError
    /\ UNCHANGED <<options, call, basePathTransform, rawBasePath, uploadOptions, cloudfrontInvalidateOptions,
                   noCdnizer, isConnected, clients, hook, pass, hookSettled, listed,
                   files, allowed, transformed, cdn, invalidations, errors, unhandled>>

\* An upload settles.  Nothing handles the rejection of upload.promise().
UploadSettles(i) ==
    /\ i \in DOMAIN uploads
    /\ uploads[i].state = "pending"
    /\ \/ /\ uploads' = [uploads EXCEPT ![i].state = "done"]
          /\ UNCHANGED unhandled
       \/ /\ uploads' = [uploads EXCEPT ![i].state = "failed"]
          /\ unhandled' = unhandled \cup {"UploadError"}
    /\ UNCHANGED <<options, call, basePathTransform, rawBasePath, uploadOptions, cloudfrontInvalidateOptions,
                   noCdnizer, cdnizerOptionsFiles, isConnected, clients, hook, pass,
                   hookSettled, pc, listed, files, allowed, transformed, pendingError,
                   cdn, invalidations, errors>>

---------------------------------------------------------------------------
(* invalidateCloudfront and handleErrors                                   *)

\* invalidateCloudfront without the instanceof Array branch: a string has no
\* map method, so the call throws.
InvalidateCloudfrontNoWrap ==
    /\ pc = "invalidate"
    /\ LET d == cloudfrontInvalidateOptions.DistributionId
       IN  IF d.kind = "array"
           THEN /\ invalidations' = [i \in DOMAIN d.ids |->
                                        [DistributionId |-> d.ids[i], state |-> "pending"]]
                /\ pc' = "invalidating"
                /\ UNCHANGED pendingError
           ELSE IF d.kind = "string"
           THEN /\ pc' = "catch"
                /\ pendingError' = "TypeError"
                /\ UNCHANGED invalidations
           ELSE /\ pc' = "settled"
                /\ UNCHANGED <<pendingError, invalidations>>
    /\ UNCHANGED <<options, call, basePathTransform, rawBasePath, uploadOptions,
                   cloudfrontInvalidateOptions, noCdnizer,
                   cdnizerOptionsFiles, isConnected, clients, hook, pass, hookSettled,
                   listed, files, allowed, transformed, cdn, uploads,
                   errors, unhandled>>

\* .then(() => this.invalidateCloudfront()): a string DistributionId is
\* replaced by a one-element array, and one createInvalidation is issued
\* per element.
InvalidateCloudfront ==
    /\ pc = "invalidate"
    /\ LET d == cloudfrontInvalidateOptions.DistributionId
       IN  IF d.kind # "undefined"
           THEN /\ cloudfrontInvalidateOptions' =
                       [cloudfrontInvalidateOptions EXCEPT !.DistributionId.kind = "array"]
                /\ invalidations' = [i \in DOMAIN d.ids |->
                                        [DistributionId |-> d.ids[i], state |-> "pending"]]
                /\ pc' = "invalidating"
           ELSE /\ pc' = "settled"
                /\ UNCHANGED <<cloudfrontInvalidateOptions, invalidations>>
    /\ UNCHANGED <<options, call, basePathTransform, rawBasePath, uploadOptions, noCdnizer,
                   cdnizerOptionsFiles, isConnected, clients, hook, pass, hookSettled,
                   listed, files, allowed, transformed, pendingError, cdn, uploads,
                   errors, unhandled>>

\* The callback of createInvalidation; the first error rejects the
\* Promise.all of invalidateCloudfront.
InvalidationCallback(i) ==
    /\ i \in DOMAIN invalidations
    /\ invalidations[i].state = "pending"
    /\ \/ /\ invalidations' = [invalidations EXCEPT ![i].state = "done"]
          /\ UNCHANGED <<pc, pendingError>>
       \/ /\ invalidations' = [invalidations EXCEPT ![i].state = "failed"]
          /\ IF pc = "invalidating"
             THEN pc' = "catch" /\ pendingError' = "InvalidationError"
             ELSE UNCHANGED <<pc, pendingError>>
    /\ UNCHANGED <<options, call, basePathTransform, rawBasePath, uploadOptions, cloudfrontInvalidateOptions,
                   noCdnizer, cdnizerOptionsFiles, isConnected, clients, hook, pass,
                   hookSettled, listed, files, allowed, transformed, cdn, uploads,
                   errors, unhandled>>

\* The Promise.all of invalidateCloudfront resolves: the chain is fulfilled.
InvalidationsResolved ==
    /\ pc = "invalidating"
    /\ \A i \in DOMAIN invalidations : invalidations[i].state = "done"
    /\ pc' = "settled"
    /\ UNCHANGED <<options, call, basePathTransform, rawBasePath, uploadOptions, cloudfrontInvalidateOptions,
                   noCdnizer, cdnizerOptionsFiles, isConnected, clients, hook, pass,
                   hookSettled, listed, files, allowed, transformed, pendingError, cdn,
                   uploads, invalidations, errors, unhandled>>

\* .catch((e) => this.handleErrors(e, compilation)): the error is pushed and
\* thrown again, into a promise nobody holds.
HandleErrors ==
    /\ pc = "catch"
    /\ errors' = Append(errors, PluginError(pendingError))
    /\ unhandled' = unhandled \cup {pendingError}
    /\ pc' = "settled"
    /\ UNCHANGED <<options, call, basePathTransform, rawBasePath, uploadOptions, cloudfrontInvalidateOptions,
                   noCdnizer, cdnizerOptionsFiles, isConnected, clients, hook, pass,
                   hookSettled, listed, files, allowed, transformed, pendingError, cdn,
                   uploads, invalidations>>

---------------------------------------------------------------------------
(* Specifications                                                          *)

Next ==
    \/ Connect
    \/ Apply
    \/ Done
    \/ ListDirectory
    \/ ListAssets
    \/ \E i \in 1..Len(cdn) : ReadFileCallback(i)
    \/ \E i \in 1..Len(cdn) : WriteFileCallback(i)
    \/ ChangeUrlsResolved
    \/ FilterAllowedFiles
    \/ UploadFiles
    \/ TransformBasePath
    \/ StartUploads
    \/ \E i \in 1..Len(uploads) : UploadSettles(i)
    \/ InvalidateCloudfront
    \/ \E i \in 1..Len(invalidations) : InvalidationCallback(i)
    \/ InvalidationsResolved
    \/ HandleErrors

Spec == Init /\ [][Next]_vars

\* The event loop runs every reaction that is ready, and every I/O request
\* calls back; the compiler is not obliged to build again.
Fairness ==
    /\ WF_vars(ListDirectory)
    /\ WF_vars(ListAssets)
    /\ WF_vars(\E i \in 1..Len(cdn) : ReadFileCallback(i))
    /\ WF_vars(\E i \in 1..Len(cdn) : WriteFileCallback(i))
    /\ WF_vars(ChangeUrlsResolved)
    /\ WF_vars(FilterAllowedFiles)
    /\ WF_vars(UploadFiles)
    /\ WF_vars(TransformBasePath)
    /\ WF_vars(StartUploads)
    /\ WF_vars(\E i \in 1..Len(uploads) : UploadSettles(i))
    /\ WF_vars(InvalidateCloudfront)
    /\ WF_vars(\E i \in 1..Len(invalidations) : InvalidationCallback(i))
    /\ WF_vars(InvalidationsResolved)
    /\ WF_vars(HandleErrors)

FairSpec == Spec /\ Fairness

---------------------------------------------------------------------------
(* Direct calls of testRule and prioritizeFiles                            *)

CallTestRule ==
    /\ call.op = "testRule"
    /\ call.state = "called"
    /\ call' = IF testRuleThrows(call.rule, call.subject)
               THEN [call EXCEPT !.state = "thrown"]
               ELSE [call EXCEPT !.state = "returned",
                                 !.result = testRule(call.rule, call.subject)]
    /\ UNCHANGED pluginVars

\* remainingFiles is a copy ([...files]), so the argument keeps its members.
CallPrioritizeFiles ==
    /\ call.op = "prioritizeFiles"
    /\ call.state = "called"
    /\ call' = [call EXCEPT !.state = "returned",
                            !.tiers = prioritizeFiles(options, call.files)]
    /\ UNCHANGED pluginVars

FnNext ==
    \/ CallTestRule
    \/ CallPrioritizeFiles

FnSpec == FnInit /\ [][FnNext]_vars

---------------------------------------------------------------------------
(* Properties                                                              *)

UploadedNames == [i \in DOMAIN uploads |-> uploads[i].name]

\* The listing, rewrite or filter stage of the pass has failed.
EarlyFailure == pendingError \in {"ListingError", "RewriteError", "InvalidRule"}

\* The include/exclude/ignore policy, from the rules themselves.
Passes(name) ==
    /\ ~Truthy(options.include) \/ testRule(options.include, name)
    /\ ~(Truthy(options.exclude) /\ testRule(options.exclude, name))
    /\ \A i \in DOMAIN UPLOAD_IGNORES : ~RegExpTest(UPLOAD_IGNORES[i], name)

\* The pass has settled after reaching the upload stage.
SettledPastFilter ==
    /\ pc = "settled"
    /\ pass > 0
    /\ hook.hasRequiredUploadOpts
    /\ ~EarlyFailure

\* C1: in a pass with Bucket present and no priority list, from either file
\* source, either an earlier stage fails or an upload request is eventually
\* issued for every listed or rewritten file that passes the filter.
C1_UploadIssuedForEveryAllowedFile ==
    (pc = "list" /\ ~options.priority.set)
        ~> (\/ EarlyFailure
            \/ /\ pc = "invalidate"
               /\ \A n \in Range(listed) \cup Range(files) :
                      Passes(n) => n \in Range(UploadedNames))

C1_Witness ==
    /\ pc = "invalidate"
    /\ ~hook.isDirectoryUpload
    /\ ~options.priority.set
    /\ Len(uploads) = 2
    /\ Range(UploadedNames) = Range(listed)

\* C2: with a priority list configured, once the pass has settled without an
\* earlier stage failing, an upload request has been issued for every member
\* of every tier of prioritizeFiles.
C2_EveryTierMemberUploaded ==
    (SettledPastFilter /\ options.priority.set)
        => LET tiers == prioritizeFiles(options, allowed)
           IN  \A t \in DOMAIN tiers : \A n \in Range(tiers[t]) :
                   n \in Range(UploadedNames)

\* C3: every upload request is for a file that passes include, does not
\* match exclude and is not ignored, and the files handed to uploadFiles are
\* exactly the candidates that do.
C3_OnlyAllowedFilesUploaded ==
    /\ \A i \in DOMAIN uploads : Passes(uploads[i].name)
    /\ pc \in {"uploadFiles", "transform", "upload", "invalidate"}
           => allowed = SelectSeq(files, Passes)

C3_Witness ==
    /\ pc = "invalidate"
    /\ \E n \in Range(files) :
           /\ Truthy(options.include) /\ testRule(options.include, n)
           /\ Truthy(options.exclude) /\ testRule(options.exclude, n)
           /\ n \notin Range(UploadedNames)
    /\ uploads # <<>>

\* The key the claim gives for file name n.
ClaimedKey(n) ==
    LET resolved == addTrailingS3Sep(
                        CallTransform(basePathTransform,
                                      addTrailingS3Sep(rawBasePath)).value)
        k == resolved \o n
    IN  IF k # <<>> /\ k[1] = "/" THEN Tail(k) ELSE k

\* C4: the Key of every upload request is
\* addTrailingS3Sep(t(addTrailingS3Sep(b))) + n with one leading '/' stripped.
C4_KeyIsResolvedBasePathPlusName ==
    \A i \in DOMAIN uploads : uploads[i].Key = ClaimedKey(uploads[i].name)

\* C5: without Bucket every pass records exactly one configuration error and
\* issues no upload, no rewrite and no invalidation.
C5_MissingBucketOnlyRecordsError ==
    (hook.registered /\ ~hook.hasRequiredUploadOpts /\ pass > 0)
        => /\ errors = <<ConfigError>>
           /\ uploads = <<>>
           /\ cdn = <<>>
           /\ invalidations = <<>>

C5_Witness ==
    /\ uploadOptions.Bucket.kind = "undefined"
    /\ pass = 2
    /\ errors = <<ConfigError>>

\* C6: when the promise of uploadFiles is resolved (the chain stands at
\* invalidateCloudfront) every upload request of the pass is terminal, and a
\* failed upload request rejects it.
C6_UploadFilesAwaitsUploads ==
    /\ pc = "invalidate" => Terminal(uploads)
    /\ (Quiescent /\ \E i \in DOMAIN uploads : uploads[i].state = "failed")
           => pendingError = "UploadError"

\* C7: the stages run in order, each after the previous one has finished: no
\* upload request before every rewrite is done, no invalidation request
\* before every upload request has completed.
C7_StagesInOrder ==
    /\ uploads # <<>> => \A i \in DOMAIN cdn : cdn[i].state = "done"
    /\ invalidations # <<>> => \A i \in DOMAIN uploads : uploads[i].state # "pending"

\* C8: when a pass has ended with a failed upload request, the build's error
\* list holds an entry prefixed "S3Plugin: ".
C8_UploadFailureRecorded ==
    (Quiescent /\ \E i \in DOMAIN uploads : uploads[i].state = "failed")
        => \E e \in DOMAIN errors : errors[e].prefix = "S3Plugin: "

\* The tiers one after the other.
RECURSIVE Flatten(_)
Flatten(tiers) == IF tiers = <<>> THEN <<>> ELSE Head(tiers) \o Flatten(Tail(tiers))

\* C9: with a priority list configured, once the pass has settled without an
\* earlier stage failing, the upload requests were submitted tier by tier:
\* the remaining tier first, then one tier per pattern.
C9_SubmittedTierByTier ==
    (SettledPastFilter /\ options.priority.set)
        => UploadedNames = Flatten(prioritizeFiles(options, allowed))

\* /\.(html|css)/ spelled out.
MatchesHtmlOrCss(n) ==
    \/ RegExpTest(<<"\\.", "h", "t", "m", "l">>, n)
    \/ RegExpTest(<<"\\.", "c", "s", "s">>, n)

\* C10: with cdnizer options only HTML or CSS files are read and written
\* back, and when changeUrls resolves every HTML or CSS candidate has been
\* written; without them nothing is written and changeUrls resolves with its
\* input.
C10_RewritesExactlyHtmlAndCss ==
    IF noCdnizer
    THEN cdn = <<>> /\ files = listed
    ELSE /\ \A i \in DOMAIN cdn : MatchesHtmlOrCss(cdn[i].name)
         /\ pc = "filter"
               => \A n \in Range(options.htmlFiles) \cup Range(listed) :
                      MatchesHtmlOrCss(n)
                          <=> \E i \in DOMAIN cdn :
                                  cdn[i].name = n /\ cdn[i].state = "done"

C10_Witness ==
    /\ ~noCdnizer
    /\ pc = "filter"
    /\ \E i \in DOMAIN cdn : cdn[i].name = StyleCss /\ cdn[i].state = "done"
    /\ AppJs \in Range(files)

\* The DistributionIds of the invalidation requests of the pass.
InvalidatedIds == [i \in DOMAIN invalidations |-> invalidations[i].DistributionId]

\* C11: the step that runs invalidateCloudfront issues no request when no
\* DistributionId is configured and otherwise exactly one per configured
\* identifier (one for a single string), on every pass; no other step of the
\* pass issues one.
C11_OneInvalidationPerDistribution ==
    [][/\ (pc = "invalidate" /\ pc' # pc)
           => InvalidatedIds' =
                  IF cloudfrontInvalidateOptions.DistributionId.kind = "undefined"
                  THEN <<>>
                  ELSE cloudfrontInvalidateOptions.DistributionId.ids
       /\ (pc # "invalidate" /\ pass' = pass) => InvalidatedIds' = InvalidatedIds]_vars

C11_Witness ==
    /\ pass = 2
    /\ pc = "invalidating"
    /\ InvalidatedIds = <<"D1">>

\* The parameter k of a request for fileName when s3UploadOptions gives no
\* value for it: the default ACL, the content type inferred from the name.
DefaultParam(k, fileName) ==
    IF k = "ACL" THEN "public-read"
    ELSE IF k = "ContentType" /\ MimeGetType(fileName) # "null" THEN MimeGetType(fileName)
    ELSE "undefined"

\* C12: in every upload request a parameter whose s3UploadOptions entry is
\* a function is that function's result for the file (an undefined result
\* sets nothing, so the parameter is what it is without an entry), a
\* parameter whose entry is not a function is the entry itself, and no step
\* changes the template.
C12_FunctionResultIsParameter ==
    [][/\ uploadOptions' = uploadOptions
       /\ \A i \in DOMAIN uploads' : \A k \in ParamNames :
             LET o == uploadOptions[k]
                 name == uploads'[i].name
             IN  /\ o.kind = "fn" =>
                        uploads'[i].params[k] =
                            IF o.ret[name] # "undefined" THEN o.ret[name]
                            ELSE DefaultParam(k, name)
                 /\ o.kind = "const" => uploads'[i].params[k] = o.value]_vars

C12_Witness ==
    /\ uploadOptions.ACL.kind = "fn"
    /\ uploadOptions.ContentType.kind = "fn"
    /\ \E i \in DOMAIN uploads :
          /\ uploads[i].name = AppJs
          /\ uploads[i].params.ACL = "private"
          /\ uploads[i].params.ContentType = "application/javascript"
    /\ \E i \in DOMAIN uploads :
          /\ uploads[i].name = StyleCss
          /\ uploads[i].params.ACL = "public-read"
          /\ uploads[i].params.ContentType = "text/x"

\* C13: a call of testRule that returns gives the pattern's match for a
\* pattern rule, the match of the string compiled as a pattern for a string
\* rule, the truthiness of the function's result for a function rule, and the
\* conjunction of testRule over the members for a list (true when empty).
C13_TestRulePerShape ==
    (call.op = "testRule" /\ call.state = "returned") =>
        LET r == call.rule
            subject == call.subject
        IN  /\ r.kind = "regexp" => call.result = RegExpTest(r.src, subject)
            /\ r.kind = "string" => call.result = RegExpTest(NewRegExp(r.src), subject)
            /\ r.kind = "function" =>
                   call.result = (r.ret[subject] \in {"true", "'x'"})
            /\ r.kind = "array" =>
                   call.result = (\A i \in DOMAIN r.rules : testRule(r.rules[i], subject))
            /\ (r.kind = "array" /\ r.rules = <<>>) => call.result = TRUE
            /\ r.kind \in {"regexp", "string", "function", "array"}

C13_Witness ==
    /\ call.op = "testRule"
    /\ call.state = "returned"
    /\ call.subject = StyleCss
    /\ call.rule.kind = "array"
    /\ Len(call.rule.rules) = 2
    /\ call.rule.rules[1] = StringRule(<<"c", ".", "s">>)
    /\ call.rule.rules[2].kind = "function"
    /\ call.rule.rules[2].ret[StyleCss] = "'x'"
    /\ call.result = TRUE

\* The files of fs that match pattern i of the priority list and none of
\* the patterns before it; with i one past the list, the files that match none.
TierOf(priority, fs, i) ==
    LET InTier(f) ==
            /\ i <= Len(priority) => RegExpTest(priority[i], f)
            /\ \A j \in 1..(i - 1) : ~RegExpTest(priority[j], f)
    IN  SelectSeq(fs, InTier)

\* C18: prioritizeFiles returns one tier more than there are patterns; the
\* first holds the files that match no pattern, tier i + 1 the files that
\* match pattern i and no earlier one, each in input order, so that the tiers
\* partition the input; the argument is as it was; and for [/css/] and
\* [a.js, s.css] the result is [[a.js], [s.css]].
C18_PrioritizeFilesPartitions ==
    (call.op = "prioritizeFiles" /\ call.state = "returned") =>
        LET priority == options.priority.list
            n == Len(priority)
        IN  /\ Len(call.tiers) = n + 1
            /\ call.tiers[1] = TierOf(priority, call.files, n + 1)
            /\ \A i \in 1..n : call.tiers[i + 1] = TierOf(priority, call.files, i)
            /\ \A f \in Range(call.files) :
                   Cardinality({ i \in 1..(n + 1) : f \in Range(call.tiers[i]) }) = 1
            /\ \A i \in 1..(n + 1) : Range(call.tiers[i]) \subseteq Range(call.files)
            /\ (priority = << <<"c", "s", "s">> >> /\ call.files = <<AppJs, StyleCss>>)
                   => call.tiers = << <<AppJs>>, <<StyleCss>> >>

C18_Witness ==
    /\ call.op = "prioritizeFiles"
    /\ call.state = "returned"
    /\ options.priority.list = << <<"s">>, <<"c", "s", "s">> >>
    /\ call.files = <<IndexHtml, StyleCss, AppJs>>
    /\ call.tiers = << <<IndexHtml>>, <<StyleCss, AppJs>>, <<>> >>

\* C14: the Key of every upload request does not begin with '/'.
C14_KeyNeverBeginsWithSep ==
    \A i \in DOMAIN uploads :
        uploads[i].Key = <<>> \/ Head(uploads[i].Key) # S3_PATH_SEP

\* C15: once transformBasePath has stored its result, the base path is empty
\* or ends with '/'.
C15_BasePathEndsWithSep ==
    pc = "upload" =>
        \/ options.basePath = <<>>
        \/ options.basePath[Len(options.basePath)] = S3_PATH_SEP

\* C16: no two upload requests of a pass are for the same file name.
C16_AtMostOneUploadPerName ==
    \A i, j \in DOMAIN uploads : i # j => uploads[i].name # uploads[j].name

\* C17: while the pass is between changeUrls and the uploads, and whenever
\* an upload request of the pass exists, every cdnizeHtml of the pass has
\* written its file back, and with cdnizer options every HTML or CSS file
\* that is uploaded is one of them.
C17_RewritesDoneBeforeFirstUpload ==
    (uploads # <<>> \/ pc \in {"filter", "uploadFiles", "transform", "upload"}) =>
        /\ \A i \in DOMAIN cdn : cdn[i].state = "done"
        /\ \A u \in DOMAIN uploads :
               (~noCdnizer /\ IsCdnizeFile(uploads[u].name))
                   => \E i \in DOMAIN cdn : cdn[i].name = uploads[u].name

C17_Witness ==
    /\ \E u \in DOMAIN uploads : uploads[u].name = StyleCss
    /\ \E i \in DOMAIN cdn : cdn[i].name = StyleCss /\ cdn[i].state = "done"

\* The base path the constructor stores for the basePath option.
ConstructedBasePath ==
    IF rawBasePath # <<>> THEN addTrailingS3Sep(rawBasePath) ELSE <<>>

\* C19: on every pass the base path stored for the keys is the transform of
\* the configured base path, normalised: the value of the first pass.
C19_TransformOfConfiguredBasePath ==
    pc = "upload" =>
        options.basePath =
            addTrailingS3Sep(CallTransform(basePathTransform, ConstructedBasePath).value)

\* C20: from the failure of the listing or of a rewrite to the end of the
\* pass there is no upload request and no invalidation request, and the
\* pass ends with exactly one error entry, prefixed "S3Plugin: ".
C20_EarlyFailureAbortsPass ==
    pendingError \in {"ListingError", "RewriteError"} =>
        /\ uploads = <<>>
        /\ invalidations = <<>>
        /\ pc \in {"catch", "settled"}
        /\ pc = "catch" => errors = <<>>
        /\ pc = "settled" =>
               /\ Len(errors) = 1
               /\ errors[1].prefix = "S3Plugin: "
               /\ errors[1].error = pendingError

C20_Witness ==
    /\ pendingError = "RewriteError"
    /\ pc = "settled"
    /\ Len(errors) = 1
    /\ \E i, j \in DOMAIN cdn : i # j /\ cdn[i].state = "failed" /\ cdn[j].state = "failed"

\* C21: while the promise the done callback returned is settled, the pass's
\* pipeline has finished or failed, with its error entries pushed, and no
\* rejection of the pass is left without a handler.
C21_HookSettlesAfterPipeline ==
    /\ hookSettled => Quiescent
    /\ unhandled = {}

\* C22: no step disconnects or creates a second client; the plugin is
\* connected exactly when its one client exists; and every upload request is
\* issued on that client while connected.
C22_ConnectedOnceForGood ==
    [][/\ isConnected => (isConnected' /\ clients' = clients)
       /\ clients' <= 1
       /\ isConnected' <=> (clients' = 1)
       /\ \A i \in DOMAIN uploads' : isConnected' /\ uploads'[i].client = 1]_vars

C22_Witness ==
    /\ pass = 2
    /\ isConnected
    /\ clients = 1
    /\ uploads # <<>>
    /\ \A i \in DOMAIN uploads : uploads[i].client = 1

\* The rule is of no supported shape, or is a list with such a member.
Unsupported(rule) ==
    \/ rule.kind \notin {"regexp", "string", "function", "array"}
    \/ /\ rule.kind = "array"
       /\ \E i \in DOMAIN rule.rules :
              rule.rules[i].kind \notin {"regexp", "string", "function", "array"}

\* C23: a finished call of testRule on a rule of unsupported shape, or on
\* a list with a member of unsupported shape at any position, has thrown.
C23_UnsupportedRuleThrows ==
    (call.op = "testRule" /\ call.state # "called" /\ Unsupported(call.rule))
        => call.state = "thrown"

====
